---- MODULE Spec2Model ----
(***************************************************************************)
(* Model of src/countdown-generator/index.js: the countdown GIF generator. *)
(*                                                                         *)
(* module.exports is one long-lived object; init() stores the render's     *)
(* configuration on it (this.width, this.encoder, ...) and calls encode(), *)
(* which runs the whole frame loop synchronously.  The only asynchronous   *)
(* step is the write stream the encoder's output is piped into: its        *)
(* 'finish' listener runs the caller's callback.                           *)
(*                                                                         *)
(* A moment duration is modelled by its length in milliseconds; asDays(),  *)
(* asHours(), asMinutes() and asSeconds() are that length divided by the   *)
(* unit, so Math.floor of them is an integer floor division.               *)
(*                                                                         *)
(* JavaScript runs a call to completion: pc is the position of the running *)
(* init/encode call, and while it is not "idle" neither another init nor a *)
(* stream event can run.  The steps of the frame loop are separate actions *)
(* so that their order is the order of the code's statements.              *)
(*                                                                         *)
(* The input of time() is the difference target - now in milliseconds, the *)
(* value moment's diff() returns; parsing the time string is moment's.     *)
(***************************************************************************)
EXTENDS Integers, Sequences, FiniteSets, TLC

VARIABLES
    this,        \* the fields init stores on module.exports
    encoders,    \* the GIFEncoder objects created so far, by id
    canvases,    \* the Canvas objects (with their 2d context) created so far, by id
    streams,     \* the write streams encode() has piped an encoder into, by id
    fs,          \* the tmp directory: whether it exists, and its files
    pc,          \* where the running synchronous call stands ("idle": none runs)
    local,       \* the locals of the running encode call
    budget,      \* how many init calls the caller will still make
    trace,       \* history: the calls made on encoder, context and duration, in order
    breakdowns,  \* history: per render, the unit breakdown computed for each frame
    callbacks,   \* history: the invocations of the callers' cb, in order
    calls        \* history: the parameters of each init call, in order

vars == <<this, encoders, canvases, streams, fs, pc, local, budget,
          trace, breakdowns, callbacks, calls>>

----------------------------------------------------------------------------
(* Bounds of the model *)

\* the number of init calls made on the module in the concurrent scenario
MaxRenders == 2

----------------------------------------------------------------------------
(* Program constants *)

MinWidth == 150
MaxWidth == 500
MinHeight == 80
MaxHeight == 500
MinFrames == 1
MaxFrames == 90

\* the geometry drawBox is called with
BoxWidth == 97
BoxGap == 15
BoxHeight == 80

----------------------------------------------------------------------------
(* Pure helpers *)

Min(a, b) == IF a < b THEN a ELSE b
Max(a, b) == IF a > b THEN a ELSE b

\* Math.floor(num / den) for den > 0
Floor(num, den) == num \div den

Digit(d) == <<"0", "1", "2", "3", "4", "5", "6", "7", "8", "9">>[d + 1]

RECURSIVE Digits(_)
Digits(n) == IF n < 10 THEN Digit(n) ELSE Digits(n \div 10) \o Digit(n % 10)

\* Number.prototype.toString of an integer
toString(n) == IF n < 0 THEN "-" \o Digits(0 - n) ELSE Digits(n)

\* (v.toString().length == 1) ? '0' + v : v, as the text later drawn with "" + v
pad(v) == IF Len(toString(v)) = 1 THEN "0" \o toString(v) ELSE toString(v)

\* clamp without the upper bound
clampNoMax(number, min, max) == Max(min, number)

clamp(number, min, max) == Max(min, Min(number, max))

\* typeof of what time() returns
typeof(timeResult) == timeResult.type

PassedText == "Date has passed!"

\* time with the target equal to now taken as not yet passed
timeStrict(difference) ==
    IF difference < 0
    THEN [type |-> "string", value |-> "Date has passed!", milliseconds |-> 0]
    ELSE [type |-> "object", value |-> "", milliseconds |-> difference]

\* time(timeString), given difference = moment(timeString).diff(moment()) in ms
time(difference) ==
    IF difference <= 0
    THEN [type |-> "string", value |-> PassedText, milliseconds |-> 0]
    ELSE [type |-> "object", value |-> "", milliseconds |-> difference]

\* days rounded towards zero instead of down
daysTruncated(timeResult) ==
    IF timeResult.milliseconds < 0
    THEN 0 - Floor(0 - timeResult.milliseconds, 86400000)
    ELSE Floor(timeResult.milliseconds, 86400000)

\* the four unit values of the frame loop
days(timeResult) == Floor(timeResult.milliseconds, 86400000)
\* hours without the days already counted taken off
hoursOfTotal(timeResult, d) == Floor(timeResult.milliseconds, 3600000)

hours(timeResult, d) == Floor(timeResult.milliseconds - d * 24 * 3600000, 3600000)
minutes(timeResult, d, h) == Floor(timeResult.milliseconds, 60000) - (d * 24 * 60) - (h * 60)
seconds(timeResult, d, h, m) ==
    Floor(timeResult.milliseconds, 1000) - (d * 24 * 60 * 60) - (h * 60 * 60) - (m * 60)

\* subtract that leaves the duration as it is
subtractNothing(timeResult, n) == timeResult

\* subtract that stops at zero
subtractClamped(timeResult, n) ==
    [timeResult EXCEPT !.milliseconds = Max(0, @ - n * 1000)]

\* timeResult.subtract(n, 'seconds')
subtract(timeResult, n) ==
    [timeResult EXCEPT !.milliseconds = @ - n * 1000]

\* for (...; i < this.frames; ...)
loopCondition(i, frames) == i < frames

\* tmpDir + this.name + '.gif'
filePath(name) == "tmp/" \o name \o ".gif"

----------------------------------------------------------------------------
(* The objects of the libraries the module uses *)

\* new GIFEncoder(width, height)
GIFEncoder(width, height) ==
    [width |-> width, height |-> height, started |-> FALSE, finished |-> FALSE,
     repeat |-> -1, delay |-> 0, quality |-> 10, transparent |-> -1,
     frames |-> <<>>]

\* new Canvas(width, height), with its 2d context.  pixels lists the painted
\* regions in paint order; a region is a filled rectangle and the texts drawn on it.
Canvas(width, height) ==
    [width |-> width, height |-> height,
     font |-> [size |-> 10, family |-> "sans-serif"],
     textAlign |-> "start", textBaseline |-> "alphabetic",
     fillStyle |-> "#000000", pixels |-> <<>>]

Covers(x, y, w, h, region) ==
    /\ x <= region.x /\ region.x + region.w <= x + w
    /\ y <= region.y /\ region.y + region.h <= y + h

\* ctx.fillRect(x, y, w, h): overwrites in place what the rectangle covers
fillRect(ctx, x, y, w, h) ==
    [ctx EXCEPT !.pixels =
        Append(SelectSeq(@, LAMBDA region : ~Covers(x, y, w, h, region)),
               [x |-> x, y |-> y, w |-> w, h |-> h, fill |-> ctx.fillStyle,
                texts |-> <<>>])]

\* ctx.fillText(text, ...) at a point of the rectangle painted last (both call
\* sites anchor the text inside the rectangle they have just filled)
fillText(ctx, text) ==
    [ctx EXCEPT !.pixels[Len(ctx.pixels)].texts =
        Append(@, [text |-> text, size |-> ctx.font.size,
                   family |-> ctx.font.family, color |-> ctx.fillStyle])]

\* drawBox of the frame loop; thiswidth is the closure variable it reads
drawBox(ctx, bg, textColor, num, text, x, y, w, h, thiswidth) ==
    LET c1 == fillRect([ctx EXCEPT !.fillStyle = bg], x, y, w, h)
        c2 == [c1 EXCEPT !.fillStyle = textColor,
                         !.font = [size |-> Floor(thiswidth, 10), family |-> "Open Sans"]]
        c3 == fillText(c2, num)
        c4 == [c3 EXCEPT !.font = [size |-> Floor(thiswidth, 28), family |-> "Open Sans"]]
    IN  fillText(c4, text)

\* the x coordinate the k-th box (k = 0..3) is drawn at
boxX(k) == (BoxWidth + BoxGap) * k

BoxLabels == <<"DAYS", "HOURS", "MINUTES", "SECONDS">>

\* enc.addFrame(ctx): the encoder takes a snapshot of the canvas
addFrame(enc, ctx) == [enc EXCEPT !.frames = Append(@, ctx.pixels)]

\* the 'finish' listener of the write stream: typeof cb === 'function' && cb()
finishListener(cb, stream) ==
    IF cb = "function" THEN <<[stream |-> stream, args |-> <<>>]>> ELSE <<>>

Log(r, op, i, what) == [r |-> r, op |-> op, i |-> i, what |-> what]

----------------------------------------------------------------------------
(* Inputs *)

\* the default parameter values of init; time has none, and stands here as a
\* target 90 s after the call, with a function as cb
Defaults ==
    [difference |-> 90000, width |-> 200, height |-> 80, color |-> "000000",
     bg |-> "ffffff", name |-> "default", title |-> "Countdown!", frames |-> 30,
     cb |-> "function"]

Names == {"default", "other"}

Half(v) == [num |-> v, den |-> 2]

NoThis ==
    [width |-> 0, height |-> 0, frames |-> 0, bg |-> "", textColor |-> "",
     name |-> "", halfWidth |-> Half(0), halfHeight |-> Half(0),
     encoder |-> 0, canvas |-> 0, ctx |-> 0]

NoLocal ==
    [timeResult |-> time(0), cb |-> "undefined", enc |-> 0, ctx |-> 0, i |-> 0,
     days |-> "", hours |-> "", minutes |-> "", seconds |-> ""]

NoFile == [exists |-> FALSE, writer |-> 0, frames |-> <<>>]

Paths == {filePath(n) : n \in Names}

\* Differences target - now (ms) of the single-render scenario: passed
\* deadlines, whole seconds around every unit boundary, sub-second fractions
Differences ==
    {-5000, -1, 0, 1, 999, 1500, 90500, 86400001}
    \cup {sec * 1000 : sec \in {1, 2, 3, 59, 60, 61, 90, 3599, 3600, 3661,
                                86399, 86400, 86401, 90061, 200000, 1728000}}

Widths == {149, 150, 151, 200, 432, 433, 499, 500, 501}
Heights == {79, 80, 81, 200, 499, 500, 501}
FrameCounts == {0, 1, 2, 3, 30, 90, 91}
Cbs == {"function", "undefined"}

\* the calls of the single-render scenario: the defaults with the sizes varied,
\* and with difference, frame count and callback varied together
SingleArgs ==
    {[Defaults EXCEPT !.width = w] : w \in Widths}
    \cup {[Defaults EXCEPT !.height = h] : h \in Heights}
    \cup {[Defaults EXCEPT !.difference = d, !.frames = f, !.cb = c] :
            d \in Differences, f \in FrameCounts, c \in Cbs}

\* the calls of the concurrent scenario
ConcurrentArgs ==
    {[Defaults EXCEPT !.difference = d, !.width = w, !.name = n, !.frames = 2] :
        d \in {-5000, 90000}, w \in {150, 500}, n \in Names}

----------------------------------------------------------------------------
(* The operations *)

\* init(time, width, height, color, bg, name, title, frames, cb), up to its call
\* of this.encode
init(a) ==
    /\ pc = "idle"
    /\ budget > 0
    /\ LET width == clamp(a.width, MinWidth, MaxWidth)
           height == clamp(a.height, MinHeight, MaxHeight)
           id == Len(encoders) + 1
       IN  /\ this' = [width |-> width, height |-> height,
                       frames |-> clamp(a.frames, MinFrames, MaxFrames),
                       bg |-> "#" \o a.bg, textColor |-> "#" \o a.color,
                       name |-> a.name,
                       halfWidth |-> Half(width), halfHeight |-> Half(height),
                       encoder |-> id, canvas |-> id, ctx |-> id]
           /\ encoders' = Append(encoders, GIFEncoder(width, height))
           /\ canvases' = Append(canvases, Canvas(width, height))
    /\ local' = [NoLocal EXCEPT !.timeResult = time(a.difference), !.cb = a.cb]
    /\ calls' = Append(calls, a)
    /\ breakdowns' = Append(breakdowns, <<>>)
    /\ budget' = budget - 1
    /\ pc' = "encode"
    /\ UNCHANGED <<streams, fs, trace, callbacks>>

\* encode, from its entry to the typeof test: the output stream and its
\* listener, the font, enc.start() and the encoder's settings
encodeBegin ==
    /\ pc = "encode"
    /\ LET enc == this.encoder
           ctx == this.ctx
       IN  /\ local' = [local EXCEPT !.enc = enc, !.ctx = ctx]
           /\ fs' = [fs EXCEPT !.tmp = TRUE]
           /\ streams' = Append(streams,
                  [encoder |-> enc, path |-> filePath(this.name), cb |-> local.cb,
                   state |-> "piping"])
           /\ canvases' = [canvases EXCEPT ![ctx] =
                  [@ EXCEPT !.font = [size |-> Floor(this.width, 12),
                                      family |-> "Courier New"],
                            !.textAlign = "center", !.textBaseline = "middle"]]
           /\ encoders' = [encoders EXCEPT ![enc] =
                  [@ EXCEPT !.started = TRUE, !.repeat = 0, !.delay = 1000,
                            !.quality = 10, !.transparent = 16711935]]
           /\ trace' = trace \o <<Log(enc, "start", 0, ""), Log(enc, "setRepeat", 0, ""),
                                  Log(enc, "setDelay", 0, ""), Log(enc, "setQuality", 0, ""),
                                  Log(enc, "setTransparent", 0, "")>>
    /\ pc' = IF typeof(local.timeResult) = "object" THEN "loop" ELSE "passed"
    /\ UNCHANGED <<this, budget, breakdowns, callbacks, calls>>

\* one iteration of the frame loop, first part: the unit values and their padding
loopDecompose ==
    /\ pc = "loop"
    /\ loopCondition(local.i, this.frames)
    /\ LET d == days(local.timeResult)
           h == hours(local.timeResult, d)
           m == minutes(local.timeResult, d, h)
           s == seconds(local.timeResult, d, h, m)
       IN  /\ local' = [local EXCEPT !.days = pad(d), !.hours = pad(h),
                                     !.minutes = pad(m), !.seconds = pad(s)]
           /\ breakdowns' = [breakdowns EXCEPT ![local.enc] =
                  Append(@, [ms |-> local.timeResult.milliseconds, days |-> d,
                             hours |-> h, minutes |-> m, seconds |-> s])]
    /\ trace' = Append(trace, Log(local.enc, "decompose", local.i, ""))
    /\ pc' = "paint"
    /\ UNCHANGED <<this, encoders, canvases, streams, fs, budget, callbacks, calls>>

\* second part: ctx.fillStyle = "#000000" and the four drawBox calls
loopPaint ==
    /\ pc = "paint"
    /\ LET c0 == [canvases[local.ctx] EXCEPT !.fillStyle = "#000000"]
           c1 == drawBox(c0, this.bg, this.textColor, local.days, BoxLabels[1],
                         boxX(0), 0, BoxWidth, BoxHeight, this.width)
           c2 == drawBox(c1, this.bg, this.textColor, local.hours, BoxLabels[2],
                         boxX(1), 0, BoxWidth, BoxHeight, this.width)
           c3 == drawBox(c2, this.bg, this.textColor, local.minutes, BoxLabels[3],
                         boxX(2), 0, BoxWidth, BoxHeight, this.width)
           c4 == drawBox(c3, this.bg, this.textColor, local.seconds, BoxLabels[4],
                         boxX(3), 0, BoxWidth, BoxHeight, this.width)
       IN  canvases' = [canvases EXCEPT ![local.ctx] = c4]
    /\ trace' = trace \o [k \in 1..4 |-> Log(local.enc, "drawBox", local.i, BoxLabels[k])]
    /\ pc' = "addFrame"
    /\ UNCHANGED <<this, encoders, streams, fs, local, budget, breakdowns, callbacks, calls>>

\* loopAddFrame that goes on to the next iteration without the tick
loopAddFrameNoTick ==
    /\ pc = "addFrame"
    /\ encoders' = [encoders EXCEPT ![local.enc] = addFrame(@, canvases[local.ctx])]
    /\ trace' = Append(trace, Log(local.enc, "addFrame", local.i, ""))
    /\ local' = [local EXCEPT !.i = @ + 1]
    /\ pc' = "loop"
    /\ UNCHANGED <<this, canvases, streams, fs, budget, breakdowns, callbacks, calls>>

\* third part: enc.addFrame(ctx)
loopAddFrame ==
    /\ pc = "addFrame"
    /\ encoders' = [encoders EXCEPT ![local.enc] = addFrame(@, canvases[local.ctx])]
    /\ trace' = Append(trace, Log(local.enc, "addFrame", local.i, ""))
    /\ pc' = "subtract"
    /\ UNCHANGED <<this, canvases, streams, fs, local, budget, breakdowns, callbacks, calls>>

\* last part: timeResult.subtract(1, 'seconds') and i++
loopSubtract ==
    /\ pc = "subtract"
    /\ local' = [local EXCEPT !.timeResult = subtract(@, 1), !.i = @ + 1]
    /\ trace' = Append(trace, Log(local.enc, "subtract", local.i, ""))
    /\ pc' = "loop"
    /\ UNCHANGED <<this, encoders, canvases, streams, fs, budget, breakdowns, callbacks, calls>>

\* the else branch: the single frame with the passed-deadline text
encodePassed ==
    /\ pc = "passed"
    /\ LET c0 == [canvases[local.ctx] EXCEPT !.fillStyle = this.bg]
           c1 == fillRect(c0, 0, 0, this.width, this.height)
           c2 == [c1 EXCEPT !.fillStyle = this.textColor]
           c3 == fillText(c2, local.timeResult.value)
       IN  /\ canvases' = [canvases EXCEPT ![local.ctx] = c3]
           /\ encoders' = [encoders EXCEPT ![local.enc] = addFrame(@, c3)]
    /\ trace' = trace \o <<Log(local.enc, "fillRect", 0, ""), Log(local.enc, "fillText", 0, ""),
                           Log(local.enc, "addFrame", 0, "")>>
    /\ pc' = "finish"
    /\ UNCHANGED <<this, streams, fs, local, budget, breakdowns, callbacks, calls>>

\* encodeFinish that also runs the callback as soon as the encoder has finished,
\* without waiting for the write stream
encodeFinishCallsBack ==
    /\ \/ pc = "loop" /\ ~loopCondition(local.i, this.frames)
       \/ pc = "finish"
    /\ encoders' = [encoders EXCEPT ![local.enc].finished = TRUE]
    /\ trace' = Append(trace, Log(local.enc, "finish", 0, ""))
    /\ callbacks' = callbacks \o finishListener(local.cb, local.enc)
    /\ local' = NoLocal
    /\ pc' = "idle"
    /\ UNCHANGED <<this, canvases, streams, fs, budget, breakdowns, calls>>

\* enc.finish(), after the loop has ended or the single frame was added; encode
\* and init return
encodeFinish ==
    /\ \/ pc = "loop" /\ ~loopCondition(local.i, this.frames)
       \/ pc = "finish"
    /\ encoders' = [encoders EXCEPT ![local.enc].finished = TRUE]
    /\ trace' = Append(trace, Log(local.enc, "finish", 0, ""))
    /\ local' = NoLocal
    /\ pc' = "idle"
    /\ UNCHANGED <<this, canvases, streams, fs, budget, breakdowns, callbacks, calls>>

\* the pipe: the write stream opens its file (flag 'w') and writes the encoder's
\* output; the chunks of one stream are taken as written together
pipeWrite(s) ==
    /\ pc = "idle"
    /\ streams[s].state = "piping"
    /\ encoders[streams[s].encoder].finished
    /\ fs' = [fs EXCEPT !.files[streams[s].path] =
                 [exists |-> TRUE, writer |-> s,
                  frames |-> encoders[streams[s].encoder].frames]]
    /\ streams' = [streams EXCEPT ![s].state = "written"]
    /\ UNCHANGED <<this, encoders, canvases, pc, local, budget, trace,
                   breakdowns, callbacks, calls>>

\* the write stream emits 'finish': the listener runs
streamFinish(s) ==
    /\ pc = "idle"
    /\ streams[s].state = "written"
    /\ streams' = [streams EXCEPT ![s].state = "finished"]
    /\ callbacks' = callbacks \o finishListener(streams[s].cb, s)
    /\ UNCHANGED <<this, encoders, canvases, fs, pc, local, budget, trace,
                   breakdowns, calls>>

----------------------------------------------------------------------------
(* Specifications *)

Start(n) ==
    /\ this = NoThis
    /\ encoders = <<>>
    /\ canvases = <<>>
    /\ streams = <<>>
    /\ fs = [tmp |-> FALSE, files |-> [p \in Paths |-> NoFile]]
    /\ pc = "idle"
    /\ calls = <<>>
    /\ local = NoLocal
    /\ budget = n
    /\ trace = <<>>
    /\ breakdowns = <<>>
    /\ callbacks = <<>>

Steps ==
    \/ encodeBegin
    \/ loopDecompose
    \/ loopPaint
    \/ loopAddFrame
    \/ loopSubtract
    \/ encodePassed
    \/ encodeFinish
    \/ \E s \in 1..Len(streams) : pipeWrite(s)
    \/ \E s \in 1..Len(streams) : streamFinish(s)

\* several init calls on the same module, each before or after the earlier
\* renders' streams have finished
Init == Start(MaxRenders)
Next == (\E a \in ConcurrentArgs : init(a)) \/ Steps
Spec == Init /\ [][Next]_vars

\* one init call on a fresh module
InitOne == Start(1)
NextOne == (\E a \in SingleArgs : init(a)) \/ Steps
SpecOne == InitOne /\ [][NextOne]_vars

----------------------------------------------------------------------------
(* Properties *)

Renders == 1..Len(calls)

InRange(v, lo, hi) == lo <= v /\ v <= hi

\* the value the documented range gives for an input
Limited(v, lo, hi) == IF v < lo THEN lo ELSE IF v > hi THEN hi ELSE v

\* C1: after init, this.width is in 150..500, this.height in 80..500 and
\* this.frames in 1..90; an input below the range is stored as the minimum, one
\* above it as the maximum, and one inside it unchanged.
C1_InitClampsSizes ==
    this.encoder # 0 =>
        LET a == calls[this.encoder]
        IN  /\ InRange(this.width, 150, 500)
            /\ InRange(this.height, 80, 500)
            /\ InRange(this.frames, 1, 90)
            /\ this.width = Limited(a.width, 150, 500)
            /\ this.height = Limited(a.height, 80, 500)
            /\ this.frames = Limited(a.frames, 1, 90)

\* C1 witness: init was called with width 501 and stored 500
C1_Witness ==
    /\ this.encoder # 0
    /\ calls[this.encoder].width = 501
    /\ this.width = 500

\* the render was started with the target after the current instant
Active(r) == calls[r].difference > 0

\* the render's frame count after clamping, as documented
FrameCount(r) == Limited(calls[r].frames, 1, 90)

\* the unit values lie in their natural ranges
UnitsInRange(b) ==
    /\ InRange(b.hours, 0, 23)
    /\ InRange(b.minutes, 0, 59)
    /\ InRange(b.seconds, 0, 59)

UnitsSum(b) == b.days * 86400 + b.hours * 3600 + b.minutes * 60 + b.seconds

\* C2: a breakdown computed from a non-negative whole number of seconds sums
\* back to that number, with hours in 0..23, minutes and seconds in 0..59; zero
\* seconds give all four units zero.
C2_DecomposeWholeSeconds ==
    \A r \in Renders : \A k \in 1..Len(breakdowns[r]) :
        LET b == breakdowns[r][k]
        IN  (b.ms >= 0 /\ b.ms % 1000 = 0) =>
                /\ UnitsSum(b) * 1000 = b.ms
                /\ UnitsInRange(b)
                /\ b.days >= 0
                /\ b.ms = 0 =>
                      b.days = 0 /\ b.hours = 0 /\ b.minutes = 0 /\ b.seconds = 0

\* C2 witness: a render that started at 2 s has decomposed 2 s and, two ticks
\* later, 0 s
C2_Witness ==
    \E r \in Renders :
        /\ calls[r].difference = 2000
        /\ Len(breakdowns[r]) >= 3
        /\ breakdowns[r][1] = [ms |-> 2000, days |-> 0, hours |-> 0, minutes |-> 0, seconds |-> 2]
        /\ breakdowns[r][3] = [ms |-> 0, days |-> 0, hours |-> 0, minutes |-> 0, seconds |-> 0]

\* C8: every breakdown of the frame loop, also of a negative or fractional
\* duration, sums to the floor of the duration in seconds, with hours in 0..23,
\* minutes and seconds in 0..59.
C8_BreakdownInvariant ==
    \A r \in Renders : \A k \in 1..Len(breakdowns[r]) :
        LET b == breakdowns[r][k]
            whole == b.ms - (b.ms % 1000)
        IN  /\ UnitsSum(b) * 1000 = whole
            /\ UnitsInRange(b)

\* C8 witness: a frame was computed from a negative duration with a fraction
\* (1.5 s ticked twice: -0.5 s, whose floor is -1 s)
C8_Witness ==
    \E r \in Renders : \E k \in 1..Len(breakdowns[r]) :
        breakdowns[r][k] = [ms |-> -500, days |-> -1, hours |-> 23, minutes |-> 59, seconds |-> 59]

\* the events of the trace that belong to render r, in order
TraceOf(r) == SelectSeq(trace, LAMBDA e : e.r = r)

OpsOf(r, ops) == {p \in 1..Len(TraceOf(r)) : TraceOf(r)[p].op \in ops}

\* the single region of a passed-deadline frame of a canvas of the given size
PassedFrame(r) ==
    <<[x |-> 0, y |-> 0, w |-> encoders[r].width, h |-> encoders[r].height,
       fill |-> "#" \o calls[r].bg,
       texts |-> <<[text |-> "Date has passed!", size |-> encoders[r].width \div 12,
                    family |-> "Courier New", color |-> "#" \o calls[r].color]>>]>>

\* C3: when the target is not after the current instant (difference <= 0), time
\* returns the passed-deadline marker and the render adds exactly one frame,
\* carrying the passed-deadline text, whatever the frame count; it decomposes
\* no duration and performs no tick.
C3_PassedDeadlineOneFrame ==
    \A r \in Renders : calls[r].difference <= 0 =>
        /\ (pc # "idle" /\ this.encoder = r) =>
              /\ typeof(local.timeResult) = "string"
              /\ local.timeResult.value = "Date has passed!"
        /\ Len(encoders[r].frames) <= 1
        /\ encoders[r].finished =>
              /\ Len(encoders[r].frames) = 1
              /\ encoders[r].frames[1] = PassedFrame(r)
        /\ breakdowns[r] = <<>>
        /\ OpsOf(r, {"decompose", "drawBox", "subtract"}) = {}

\* C3 witness: a render whose target equals now, configured for 90 frames, has
\* finished with its single frame
C3_Witness ==
    \E r \in Renders :
        /\ calls[r].difference = 0
        /\ calls[r].frames = 90
        /\ encoders[r].finished
        /\ Len(encoders[r].frames) = 1

\* the texts a frame shows in its four boxes, left to right
Shown(frame) == [k \in 1..Len(frame) |-> frame[k].texts[1].text]

\* C4: when the target is after the current instant, the render adds exactly N
\* frames (N the clamped frame count), frame number i (from 0) is decomposed
\* from the initial duration minus i seconds, and consecutive frames differ by
\* exactly one second; 90 s with N = 3 gives {0,0,1,30}, {0,0,1,29}, {0,0,1,28}.
C4_ActiveFramesCountDown ==
    \A r \in Renders : Active(r) =>
        /\ Len(encoders[r].frames) <= FrameCount(r)
        /\ encoders[r].finished => Len(encoders[r].frames) = FrameCount(r)
        /\ Len(breakdowns[r]) \in {Len(encoders[r].frames), Len(encoders[r].frames) + 1}
        /\ \A k \in 1..Len(breakdowns[r]) :
              /\ breakdowns[r][k].ms = calls[r].difference - 1000 * (k - 1)
              /\ k > 1 => breakdowns[r][k].ms = breakdowns[r][k - 1].ms - 1000
        /\ (calls[r].difference = 90000 /\ calls[r].frames = 3 /\ encoders[r].finished) =>
              /\ breakdowns[r] =
                    <<[ms |-> 90000, days |-> 0, hours |-> 0, minutes |-> 1, seconds |-> 30],
                      [ms |-> 89000, days |-> 0, hours |-> 0, minutes |-> 1, seconds |-> 29],
                      [ms |-> 88000, days |-> 0, hours |-> 0, minutes |-> 1, seconds |-> 28]>>
              /\ Shown(encoders[r].frames[1]) = <<"00", "00", "01", "30">>
              /\ Shown(encoders[r].frames[2]) = <<"00", "00", "01", "29">>
              /\ Shown(encoders[r].frames[3]) = <<"00", "00", "01", "28">>

\* C4 witness: the render of 90 s with 3 frames has finished with its 3 frames
C4_Witness ==
    \E r \in Renders :
        /\ calls[r].difference = 90000
        /\ calls[r].frames = 3
        /\ encoders[r].finished
        /\ Len(encoders[r].frames) = 3
        /\ breakdowns[r][3].ms = 88000

\* C7: the loop does not stop the duration at zero: a render of D whole seconds
\* with N > D + 1 frames still adds all N frames, and every frame i > D is
\* decomposed from D - i seconds, a negative total, and shows a negative value.
C7_NoClampAtZero ==
    \A r \in Renders :
        LET D == calls[r].difference \div 1000
        IN  (Active(r) /\ calls[r].difference % 1000 = 0 /\ FrameCount(r) > D + 1) =>
                /\ encoders[r].finished => Len(encoders[r].frames) = FrameCount(r)
                /\ \A i \in 0..(Len(breakdowns[r]) - 1) : i > D =>
                      LET b == breakdowns[r][i + 1]
                      IN  /\ b.ms = (D - i) * 1000
                          /\ b.ms < 0
                          /\ b.days < 0 \/ b.hours < 0 \/ b.minutes < 0 \/ b.seconds < 0
                          /\ i < Len(encoders[r].frames) =>
                                Shown(encoders[r].frames[i + 1])[1] = "-1"

\* C7 witness: a render of 2 s with 30 frames has finished; its last frame was
\* decomposed from -27 s
C7_Witness ==
    \E r \in Renders :
        /\ calls[r].difference = 2000
        /\ calls[r].frames = 30
        /\ encoders[r].finished
        /\ Len(encoders[r].frames) = 30
        /\ breakdowns[r][30].ms = -27000
        /\ breakdowns[r][30].days = -1

\* the invocations of the callback of stream s
CallbacksOf(s) == {j \in 1..Len(callbacks) : callbacks[j].stream = s}

\* the number of frames a finished render has added
ExpectedFrames(r) == IF Active(r) THEN FrameCount(r) ELSE 1

\* C5: a render's cb, when a function, is invoked exactly once, without
\* arguments, and only once the write stream has emitted 'finish', which comes
\* after enc.finish() and so after the last frame; it is not invoked while the
\* stream has not finished.
C5_CallbackOnceAfterFinish ==
    /\ \A j \in 1..Len(callbacks) : callbacks[j].stream \in 1..Len(streams)
    /\ \A s \in 1..Len(streams) : streams[s].cb = "function" =>
          /\ Cardinality(CallbacksOf(s)) = IF streams[s].state = "finished" THEN 1 ELSE 0
          /\ \A j \in CallbacksOf(s) : callbacks[j].args = <<>>
          /\ streams[s].state = "finished" =>
                /\ encoders[streams[s].encoder].finished
                /\ OpsOf(streams[s].encoder, {"finish"}) # {}
                /\ Len(encoders[streams[s].encoder].frames) = ExpectedFrames(streams[s].encoder)

\* C5 witness: the stream of a three-frame render with a function cb has
\* finished and the callback has run, once
C5_Witness ==
    /\ Len(streams) = 1
    /\ streams[1].cb = "function"
    /\ streams[1].state = "finished"
    /\ Len(encoders[1].frames) = 3
    /\ callbacks = <<[stream |-> 1, args |-> <<>>]>>

\* C6: in every render enc.start() comes before every enc.addFrame, enc.finish()
\* is called once, after the last addFrame, and every iteration of the active
\* loop runs decompose, the four boxes, addFrame, one tick, in this order, so
\* that nothing of frame i+1 is computed or painted before frame i was added.
C6_EncoderEventOrder ==
    \A r \in Renders :
        LET T == TraceOf(r)
            starts == OpsOf(r, {"start"})
            adds == OpsOf(r, {"addFrame"})
            ticks == OpsOf(r, {"subtract"})
            finishes == OpsOf(r, {"finish"})
        IN  /\ Cardinality(starts) <= 1
            /\ \A q \in adds : \E p \in starts : p < q
            /\ Cardinality(finishes) <= 1
            /\ encoders[r].finished <=> finishes # {}
            /\ \A p \in finishes : p = Len(T) /\ adds # {} /\ \A q \in adds : q < p
            /\ Cardinality(adds) = Len(encoders[r].frames)
            /\ Active(r) =>
                  /\ \A q \in adds :
                        /\ q > 5
                        /\ T[q - 5] = [r |-> r, op |-> "decompose", i |-> T[q].i, what |-> ""]
                        /\ T[q - 4] = [r |-> r, op |-> "drawBox", i |-> T[q].i, what |-> "DAYS"]
                        /\ T[q - 3] = [r |-> r, op |-> "drawBox", i |-> T[q].i, what |-> "HOURS"]
                        /\ T[q - 2] = [r |-> r, op |-> "drawBox", i |-> T[q].i, what |-> "MINUTES"]
                        /\ T[q - 1] = [r |-> r, op |-> "drawBox", i |-> T[q].i, what |-> "SECONDS"]
                        /\ q < Len(T) => T[q + 1] = [r |-> r, op |-> "subtract", i |-> T[q].i, what |-> ""]
                        /\ Cardinality({p \in adds : T[p].i = T[q].i}) = 1
                        /\ Cardinality({p \in ticks : T[p].i = T[q].i}) = IF q < Len(T) THEN 1 ELSE 0
                  /\ \A p \in ticks : p > 1 /\ T[p - 1].op = "addFrame"
                  /\ \A p \in OpsOf(r, {"decompose", "drawBox"}) :
                        T[p].i > 0 => \E q \in adds : q < p /\ T[q].i = T[p].i - 1

\* C6 witness: an active render started after another render has finished with
\* both of its frames
C6_Witness ==
    /\ Len(calls) = 2
    /\ Active(2)
    /\ encoders[2].finished
    /\ Len(encoders[2].frames) = 2
    /\ Cardinality(OpsOf(2, {"subtract"})) = 2

\* C9: two renders started on the same module share no mutable state: while a
\* render's stream has not finished the configuration it was started with is
\* still the module's, the file its output was written to still holds that
\* output, its frames come from its own configuration, and its callback runs
\* at most once.
C9_RendersShareNothing ==
    /\ \A s \in 1..Len(streams) : streams[s].state # "finished" =>
          /\ this.encoder = streams[s].encoder
          /\ this.canvas = streams[s].encoder
          /\ this.width = encoders[streams[s].encoder].width
          /\ this.name = calls[s].name
    /\ \A s \in 1..Len(streams) : streams[s].state = "written" =>
          /\ fs.files[streams[s].path].writer = s
          /\ fs.files[streams[s].path].frames = encoders[streams[s].encoder].frames
    /\ \A r \in Renders : \A k \in 1..Len(encoders[r].frames) :
          \A j \in 1..Len(encoders[r].frames[k]) :
              /\ encoders[r].frames[k][j].fill = "#" \o calls[r].bg
              /\ encoders[r].frames[k][j].texts[1].size \in
                    {Limited(calls[r].width, 150, 500) \div 10,
                     Limited(calls[r].width, 150, 500) \div 12}
    /\ \A s \in 1..Len(streams) : Cardinality(CallbacksOf(s)) <= 1

\* the gap between box k and box k + 1 of a frame
Gap(frame, k) == frame[k + 1].x - (frame[k].x + frame[k].w)

\* C10: every active frame has the four boxes DAYS, HOURS, MINUTES, SECONDS
\* from left to right, not overlapping, the same gap apart, and the box width
\* and the gap follow the configured width: renders of different widths differ
\* in box width or gap.
C10_BoxLayoutFollowsWidth ==
    /\ \A r \in Renders : Active(r) => \A k \in 1..Len(encoders[r].frames) :
          LET frame == encoders[r].frames[k]
          IN  /\ Len(frame) = 4
              /\ [j \in 1..4 |-> frame[j].texts[2].text] = <<"DAYS", "HOURS", "MINUTES", "SECONDS">>
              /\ \A j \in 1..3 : Gap(frame, j) > 0 /\ Gap(frame, j) = Gap(frame, 1)
    /\ \A r1, r2 \in Renders :
          (/\ Active(r1) /\ Active(r2)
           /\ encoders[r1].frames # <<>> /\ encoders[r2].frames # <<>>
           /\ encoders[r1].width # encoders[r2].width) =>
              \/ encoders[r1].frames[1][1].w # encoders[r2].frames[1][1].w
              \/ Gap(encoders[r1].frames[1], 1) # Gap(encoders[r2].frames[1], 1)

====
